---- MODULE Spec2Model ----
(***************************************************************************)
(* Model of VisualizationMarkers (omni.isaac.orbit.markers): a wrapper     *)
(* around one UsdGeom.PointInstancer prim.  The state is the wrapper's     *)
(* fields (cfg, _count) and the attributes of the instancer prim that the  *)
(* wrapper writes (positions, orientations, scales, protoIndices, the      *)
(* prototypes relationship and the visibility attribute).                  *)
(*                                                                         *)
(* Arrays are records [isNone, shape, data]: shape is the numpy shape      *)
(* tuple, data the rows (rank 2) or the elements (rank 1).  Component      *)
(* values are small integers, which the host's float conversions keep.     *)
(*                                                                         *)
(* A run is any sequence of operations on the object.  One operation of    *)
(* the run, chosen freely, is observed: `call` records its arguments and   *)
(* outcome and `prev` the state it began in, and the run is followed no    *)
(* further.  The properties of an operation are stated on the observed     *)
(* one, so they cover every operation of every run.                        *)
(***************************************************************************)
EXTENDS Integers, Sequences, FiniteSets, TLC

\* Largest leading dimension M of an input array.
MaxM == 2
\* Largest number of entries of cfg.markers.
MaxMarkers == 3

VARIABLES
    status,         \* "new" before __init__, "ready" after it returned, "failed" after it raised
    cfg,            \* self.cfg.markers: the ordered (name, MarkerCfg) entries
    created,        \* child prims created under the instancer, in creation order
    prototypes,     \* targets of the instancer's prototypes relationship
    visibility,     \* the instancer's visibility attribute
    positions,      \* the instancer's positions attribute
    orientations,   \* the instancer's orientations attribute
    scales,         \* the instancer's scales attribute
    protoIndices,   \* the instancer's protoIndices attribute
    count,          \* self._count
    call,           \* the observed operation: its name, arguments and outcome
    prev            \* the fields and attributes as they were when that operation began

vars == <<status, cfg, created, prototypes, visibility, positions, orientations,
          scales, protoIndices, count, call, prev>>

----------------------------------------------------------------------------
(* Values *)

\* The argument value None.
NoneArg == [isNone |-> TRUE, shape |-> <<>>, data |-> <<>>]

Array(shape, data) == [isNone |-> FALSE, shape |-> shape, data |-> data]

\* Row i of a translations input: three distinct components.
TranslationRow(i) == <<i, 10 + i, 20 + i>>
\* Row i of an orientations input, in the caller's (w, x, y, z) order.
OrientationRow(i) == <<1, 30 + i, 40 + i, 50 + i>>
\* Row i of a scales input.
ScaleRow(i) == <<60 + i, 70 + i, 80 + i>>

\* The leading dimensions M of the inputs, 0 (an empty array) included.
Dims == 0 .. MaxM

TranslationRows(m) == [i \in 1 .. m |-> TranslationRow(i)]
OrientationRows(m) == [i \in 1 .. m |-> OrientationRow(i)]
ScaleRows(m) == [i \in 1 .. m |-> ScaleRow(i)]

\* The second dimension of a rank-2 input that breaks the rule of width w.
BadWidth(w) == 7 - w

\* Shapes that break the rule (M, w): rank 1, and a wrong second dimension.
BadShapes(w) == {<<MaxM>>, <<MaxM, BadWidth(w)>>}

TranslationArgs ==
    {NoneArg} \cup {Array(<<m, 3>>, TranslationRows(m)) : m \in Dims}
              \cup {Array(s, <<>>) : s \in BadShapes(3)}

OrientationArgs ==
    {NoneArg} \cup {Array(<<m, 4>>, OrientationRows(m)) : m \in Dims}
              \cup {Array(s, <<>>) : s \in BadShapes(4)}

ScaleArgs ==
    {NoneArg} \cup {Array(<<m, 3>>, ScaleRows(m)) : m \in Dims}
              \cup {Array(s, <<>>) : s \in BadShapes(3)}

\* Prototype handles a caller passes: all 0, or 1, 2, 0, 1, ... (2 is the handle
\* of no prototype when there are two).
IndexSeqs ==
    UNION {{[i \in 1 .. m |-> 0], [i \in 1 .. m |-> i % 3]} : m \in Dims}

\* marker_indices of shape (M,), and of rank 2.
MarkerIndexArgs ==
    {NoneArg} \cup {Array(<<Len(d)>>, d) : d \in IndexSeqs}
              \cup {Array(<<MaxM, 1>>, <<>>)}

----------------------------------------------------------------------------
(* visualize *)

\* What a call did: "ok" (returned after its writes), "skipped" (returned at the
\* visibility check), or the exception it raised with the argument, the expected
\* shape and the received shape its message names.
Outcome(kind, arg, expected, received) ==
    [kind |-> kind, arg |-> arg, expected |-> expected, received |-> received]

NoError == Outcome("ok", "", "", <<>>)

\* Mutant of is_visible: the comparison inverted.
is_visible_Inverted == visibility = "invisible"

\* is_visible(): the visibility attribute is not the token `invisible`.
is_visible == visibility # "invisible"

\* The test `a.shape[1] != width or len(a.shape) != 2`, evaluated left to right:
\* the subscript raises IndexError on a shape of fewer than two entries.
ShapeCheck(a, width) ==
    IF Len(a.shape) < 2 THEN "IndexError"
    ELSE IF a.shape[2] # width \/ Len(a.shape) # 2 THEN "ValueError"
    ELSE "ok"

\* Vt.Vec3fArray.FromNumpy / Vt.QuathArray.FromNumpy / Vt.IntArray.FromNumpy:
\* the host array holding the rows (elements) of the numpy array.
FromNumpy(a) == [i \in 1 .. a.shape[1] |-> a.data[i]]

\* convert_quat(q, to="xyzw"): every row (w, x, y, z) becomes (x, y, z, w).
convert_quat(a) ==
    [a EXCEPT !.data = [i \in 1 .. Len(a.data) |->
                           <<a.data[i][2], a.data[i][3], a.data[i][4], a.data[i][1]>>]]

\* The locals and attributes visualize works on, at its first statement.
Start ==
    [positions |-> positions, orientations |-> orientations, scales |-> scales,
     protoIndices |-> protoIndices, num_markers |-> 0, exc |-> NoError]

\* -- position
ApplyTranslations(r, translations) ==
    IF r.exc.kind # "ok" \/ translations.isNone THEN r
    ELSE LET c == ShapeCheck(translations, 3) IN
         IF c # "ok"
         THEN [r EXCEPT !.exc = Outcome(c, "translations", "(M, 3)", translations.shape)]
         ELSE [r EXCEPT !.positions = FromNumpy(translations),
                        !.num_markers = translations.shape[1]]

\* Mutant of ApplyOrientations: the orientations are written as given, unconverted.
ApplyOrientations_Unconverted(r, orientations_) ==
    IF r.exc.kind # "ok" \/ orientations_.isNone THEN r
    ELSE LET c == ShapeCheck(orientations_, 4) IN
         IF c # "ok"
         THEN [r EXCEPT !.exc = Outcome(c, "orientations", "(M, 4)", orientations_.shape)]
         ELSE [r EXCEPT !.orientations = FromNumpy(orientations_),
                        !.num_markers = orientations_.shape[1]]

\* -- orientation
ApplyOrientations(r, orientations_) ==
    IF r.exc.kind # "ok" \/ orientations_.isNone THEN r
    ELSE LET c == ShapeCheck(orientations_, 4) IN
         IF c # "ok"
         THEN [r EXCEPT !.exc = Outcome(c, "orientations", "(M, 4)", orientations_.shape)]
         ELSE [r EXCEPT !.orientations = FromNumpy(convert_quat(orientations_)),
                        !.num_markers = orientations_.shape[1]]

\* Mutant of ApplyScales: the scales are written, the number of markers is not updated.
ApplyScales_NoCount(r, scales_) ==
    IF r.exc.kind # "ok" \/ scales_.isNone THEN r
    ELSE LET c == ShapeCheck(scales_, 3) IN
         IF c # "ok"
         THEN [r EXCEPT !.exc = Outcome(c, "scales", "(M, 3)", scales_.shape)]
         ELSE [r EXCEPT !.scales = FromNumpy(scales_)]

\* Mutant of ApplyScales: the scales are set on the positions attribute.
ApplyScales_ToPositions(r, scales_) ==
    IF r.exc.kind # "ok" \/ scales_.isNone THEN r
    ELSE LET c == ShapeCheck(scales_, 3) IN
         IF c # "ok"
         THEN [r EXCEPT !.exc = Outcome(c, "scales", "(M, 3)", scales_.shape)]
         ELSE [r EXCEPT !.positions = FromNumpy(scales_),
                        !.num_markers = scales_.shape[1]]

\* Mutant of ApplyScales: the scales are set before their shape is checked.
ApplyScales_SetFirst(r, scales_) ==
    IF r.exc.kind # "ok" \/ scales_.isNone THEN r
    ELSE LET c == ShapeCheck(scales_, 3) IN
         IF c # "ok"
         THEN [r EXCEPT !.scales = scales_.data,
                        !.exc = Outcome(c, "scales", "(M, 3)", scales_.shape)]
         ELSE [r EXCEPT !.scales = FromNumpy(scales_),
                        !.num_markers = scales_.shape[1]]

\* -- scales
ApplyScales(r, scales_) ==
    IF r.exc.kind # "ok" \/ scales_.isNone THEN r
    ELSE LET c == ShapeCheck(scales_, 3) IN
         IF c # "ok"
         THEN [r EXCEPT !.exc = Outcome(c, "scales", "(M, 3)", scales_.shape)]
         ELSE [r EXCEPT !.scales = FromNumpy(scales_),
                        !.num_markers = scales_.shape[1]]

\* Mutant of ApplyMarkerIndices: the block is entered only when marker_indices is
\* given, so a changed count rewrites nothing.
ApplyMarkerIndices_OnlyWhenGiven(r, marker_indices) ==
    IF r.exc.kind # "ok" THEN r
    ELSE IF ~marker_indices.isNone
    THEN IF Len(marker_indices.shape) # 1
         THEN [r EXCEPT !.exc = Outcome("ValueError", "marker_indices", "(M,)",
                                        marker_indices.shape)]
         ELSE [r EXCEPT !.protoIndices = FromNumpy(marker_indices),
                        !.num_markers = marker_indices.shape[1]]
    ELSE r

\* Mutant of ApplyMarkerIndices: the number of markers is not taken from
\* marker_indices.
ApplyMarkerIndices_KeepCount(r, marker_indices) ==
    IF r.exc.kind # "ok" THEN r
    ELSE IF ~marker_indices.isNone \/ r.num_markers # count
    THEN IF ~marker_indices.isNone
         THEN IF Len(marker_indices.shape) # 1
              THEN [r EXCEPT !.exc = Outcome("ValueError", "marker_indices", "(M,)",
                                             marker_indices.shape)]
              ELSE [r EXCEPT !.protoIndices = FromNumpy(marker_indices)]
         ELSE IF r.num_markers = 0
              THEN [r EXCEPT !.exc = Outcome("ValueError", "", "", <<>>)]
              ELSE [r EXCEPT !.protoIndices = [i \in 1 .. r.num_markers |-> 0]]
    ELSE r

\* Mutant of ApplyMarkerIndices: the default indices get the old count as length.
ApplyMarkerIndices_OldLength(r, marker_indices) ==
    IF r.exc.kind # "ok" THEN r
    ELSE IF ~marker_indices.isNone \/ r.num_markers # count
    THEN IF ~marker_indices.isNone
         THEN IF Len(marker_indices.shape) # 1
              THEN [r EXCEPT !.exc = Outcome("ValueError", "marker_indices", "(M,)",
                                             marker_indices.shape)]
              ELSE [r EXCEPT !.protoIndices = FromNumpy(marker_indices),
                             !.num_markers = marker_indices.shape[1]]
         ELSE IF r.num_markers = 0
              THEN [r EXCEPT !.exc = Outcome("ValueError", "", "", <<>>)]
              ELSE [r EXCEPT !.protoIndices = [i \in 1 .. count |-> 0]]
    ELSE r

\* Mutant of ApplyMarkerIndices: the default indices are written on every call
\* without marker_indices, the count changed or not.
ApplyMarkerIndices_AlwaysDefault(r, marker_indices) ==
    IF r.exc.kind # "ok" THEN r
    ELSE IF ~marker_indices.isNone
         THEN IF Len(marker_indices.shape) # 1
              THEN [r EXCEPT !.exc = Outcome("ValueError", "marker_indices", "(M,)",
                                             marker_indices.shape)]
              ELSE [r EXCEPT !.protoIndices = FromNumpy(marker_indices),
                             !.num_markers = marker_indices.shape[1]]
         ELSE IF r.num_markers = 0
              THEN [r EXCEPT !.exc = Outcome("ValueError", "", "", <<>>)]
              ELSE [r EXCEPT !.protoIndices = [i \in 1 .. r.num_markers |-> 0]]

\* Mutant of ApplyMarkerIndices: the number of markers is not checked for zero.
ApplyMarkerIndices_NoZeroCheck(r, marker_indices) ==
    IF r.exc.kind # "ok" THEN r
    ELSE IF ~marker_indices.isNone \/ r.num_markers # count
    THEN IF ~marker_indices.isNone
         THEN IF Len(marker_indices.shape) # 1
              THEN [r EXCEPT !.exc = Outcome("ValueError", "marker_indices", "(M,)",
                                             marker_indices.shape)]
              ELSE [r EXCEPT !.protoIndices = FromNumpy(marker_indices),
                             !.num_markers = marker_indices.shape[1]]
         ELSE [r EXCEPT !.protoIndices = [i \in 1 .. r.num_markers |-> 0]]
    ELSE r

\* Mutant of ApplyMarkerIndices: the default handles are written when the count
\* stays, not when it changes.
ApplyMarkerIndices_OnSameCount(r, marker_indices) ==
    IF r.exc.kind # "ok" THEN r
    ELSE IF ~marker_indices.isNone \/ r.num_markers = count
    THEN IF ~marker_indices.isNone
         THEN IF Len(marker_indices.shape) # 1
              THEN [r EXCEPT !.exc = Outcome("ValueError", "marker_indices", "(M,)",
                                             marker_indices.shape)]
              ELSE [r EXCEPT !.protoIndices = FromNumpy(marker_indices),
                             !.num_markers = marker_indices.shape[1]]
         ELSE IF r.num_markers = 0
              THEN [r EXCEPT !.exc = Outcome("ValueError", "", "", <<>>)]
              ELSE [r EXCEPT !.protoIndices = [i \in 1 .. r.num_markers |-> 0]]
    ELSE r

\* -- status
ApplyMarkerIndices(r, marker_indices) ==
    IF r.exc.kind # "ok" THEN r
    ELSE IF ~marker_indices.isNone \/ r.num_markers # count
    THEN IF ~marker_indices.isNone
         THEN IF Len(marker_indices.shape) # 1
              THEN [r EXCEPT !.exc = Outcome("ValueError", "marker_indices", "(M,)",
                                             marker_indices.shape)]
              ELSE [r EXCEPT !.protoIndices = FromNumpy(marker_indices),
                             !.num_markers = marker_indices.shape[1]]
         ELSE IF r.num_markers = 0
              THEN [r EXCEPT !.exc = Outcome("ValueError", "", "", <<>>)]
              ELSE [r EXCEPT !.protoIndices = [i \in 1 .. r.num_markers |-> 0]]
    ELSE r

\* The body of visualize after the visibility check.
Update(translations, orientations_, scales_, marker_indices) ==
    ApplyMarkerIndices(
        ApplyScales(
            ApplyOrientations(
                ApplyTranslations(Start, translations), orientations_), scales_),
        marker_indices)

\* The fields and attributes an operation can change, for `prev`.
Snapshot ==
    [status |-> status, positions |-> positions, orientations |-> orientations,
     scales |-> scales, protoIndices |-> protoIndices, count |-> count,
     visibility |-> visibility]

Call(op, translations, orientations_, scales_, marker_indices, visible, outcome) ==
    [op |-> op, translations |-> translations, orientations |-> orientations_,
     scales |-> scales_, marker_indices |-> marker_indices, visible |-> visible,
     outcome |-> outcome]

\* No operation observed yet.
NoCall == Call("none", NoneArg, NoneArg, NoneArg, NoneArg, FALSE, NoError)

NoSnapshot ==
    [status |-> "new", positions |-> <<>>, orientations |-> <<>>, scales |-> <<>>,
     protoIndices |-> <<>>, count |-> 0, visibility |-> "inherited"]

\* The operation c is observed, or goes unrecorded.
Observe(observe, c) ==
    /\ call' = IF observe THEN c ELSE NoCall
    /\ prev' = IF observe THEN Snapshot ELSE NoSnapshot

Visualize(translations, orientations_, scales_, marker_indices, observe) ==
    /\ status = "ready"
    /\ IF ~is_visible
       THEN /\ Observe(observe, Call("visualize", translations, orientations_, scales_,
                                     marker_indices, FALSE,
                                     Outcome("skipped", "", "", <<>>)))
            /\ UNCHANGED <<positions, orientations, scales, protoIndices, count>>
       ELSE \E r \in {Update(translations, orientations_, scales_, marker_indices)} :
            /\ positions' = r.positions
            /\ orientations' = r.orientations
            /\ scales' = r.scales
            /\ protoIndices' = r.protoIndices
            /\ count' = IF r.exc.kind = "ok" THEN r.num_markers ELSE count
            /\ Observe(observe, Call("visualize", translations, orientations_, scales_,
                                     marker_indices, FALSE, r.exc))
    /\ UNCHANGED <<status, cfg, created, prototypes, visibility>>

\* Mutant of MakeVisibility: the branches exchanged.
MakeVisibility_Exchanged(visible) == IF visible THEN "invisible" ELSE "inherited"

\* MakeVisible() / MakeInvisible() on the instancer.
MakeVisibility(visible) == IF visible THEN "inherited" ELSE "invisible"

\* set_visibility(visible)
SetVisibility(visible, observe) ==
    /\ status = "ready"
    /\ visibility' = MakeVisibility(visible)
    /\ Observe(observe, Call("set_visibility", NoneArg, NoneArg, NoneArg, NoneArg,
                             visible, NoError))
    /\ UNCHANGED <<status, cfg, created, prototypes, positions, orientations, scales,
                   protoIndices, count>>

----------------------------------------------------------------------------
(* __init__ *)

\* A (name, MarkerCfg) entry of cfg.markers.  isFile: the entry is a FileMarkerCfg.
Marker(name, isFile, prim_type, usd_path) ==
    [name |-> name, isFile |-> isFile, prim_type |-> prim_type, usd_path |-> usd_path]

\* The files the host file system holds.
Files == {"frame.usd", "arrow.usd"}

Markers ==
    { Marker("marker1", FALSE, "Sphere", ""),
      Marker("marker2", FALSE, "Sphere", ""),
      Marker("empty",   FALSE, "Xform",  ""),
      Marker("frame",   TRUE,  "Xform",  "frame.usd"),
      Marker("arrow",   TRUE,  "Cone",   "arrow.usd"),
      Marker("ghost",   TRUE,  "Xform",  "ghost.usd"),
      Marker("lost",    TRUE,  "Cone",   "lost.usd") }

\* cfg.markers is a dict: its names are distinct, its order is insertion order.
Configs ==
    {c \in UNION {[1 .. n -> Markers] : n \in 0 .. MaxMarkers} :
        \A i, j \in 1 .. Len(c) : i # j => c[i].name # c[j].name}

\* The configuration of the class docstring: two spheres, marker1 and marker2.
DocCfg == <<Marker("marker1", FALSE, "Sphere", ""), Marker("marker2", FALSE, "Sphere", "")>>

\* check_file_path(path): the path resolves on the file system.
check_file_path(path) == path \in Files

\* Mutant of MarkerCheck: the type of a file entry is checked before its file.
MarkerCheck_TypeFirst(m) ==
    IF ~m.isFile
    THEN IF m.prim_type = "Xform" THEN "ValueError" ELSE "ok"
    ELSE IF m.prim_type # "Xform" THEN "ValueError"
         ELSE IF ~check_file_path(m.usd_path) THEN "FileNotFoundError"
         ELSE "ok"

\* The check _add_markers_prototypes makes on one entry before it creates the prim.
MarkerCheck(m) ==
    IF ~m.isFile
    THEN IF m.prim_type = "Xform" THEN "ValueError" ELSE "ok"
    ELSE IF ~check_file_path(m.usd_path) THEN "FileNotFoundError"
         ELSE IF m.prim_type # "Xform" THEN "ValueError"
         ELSE "ok"

\* _add_markers_prototypes on entries i.. of markers_cfg, with the prims created
\* and the targets added so far: stops at the first entry whose check raises.
RECURSIVE AddMarkersPrototypes(_, _, _)
AddMarkersPrototypes(markers_cfg, i, acc) ==
    IF i > Len(markers_cfg) THEN acc
    ELSE LET m == markers_cfg[i]
             c == MarkerCheck(m) IN
         IF c # "ok"
         THEN [acc EXCEPT !.exc = Outcome(c, m.name, "", <<>>)]
         ELSE AddMarkersPrototypes(markers_cfg, i + 1,
                  [acc EXCEPT !.created = Append(@, m.name),
                              !.prototypes = Append(@, m.name)])

\* Gf.Vec3f(): the zero vector.
Vec3f == <<0, 0, 0>>

\* The fields and attributes before __init__ runs.
Blank ==
    [status |-> "new", cfg |-> <<>>, created |-> <<>>, prototypes |-> <<>>,
     positions |-> <<>>, protoIndices |-> <<>>, count |-> 0, exc |-> NoError]

\* Mutant of New: the configuration is not checked for being empty.
New_NoEmptyCheck(c) ==
    LET r == AddMarkersPrototypes(c, 1, [Blank EXCEPT !.cfg = c]) IN
    IF r.exc.kind # "ok"
    THEN [r EXCEPT !.status = "failed"]
    ELSE [r EXCEPT !.status = "ready",
                   !.protoIndices = <<0>>,
                   !.positions = <<Vec3f>>,
                   !.count = 1]

\* Mutant of New: the count is seeded with the number of prototypes.
New_CountFromCfg(c) ==
    IF Len(c) = 0
    THEN [Blank EXCEPT !.status = "failed", !.cfg = c,
                       !.exc = Outcome("ValueError", "cfg.markers", "", <<>>)]
    ELSE LET r == AddMarkersPrototypes(c, 1, [Blank EXCEPT !.cfg = c]) IN
         IF r.exc.kind # "ok"
         THEN [r EXCEPT !.status = "failed"]
         ELSE [r EXCEPT !.status = "ready",
                        !.protoIndices = <<0>>,
                        !.positions = <<Vec3f>>,
                        !.count = Len(c)]

\* VisualizationMarkers(prim_path, cfg): the fields and attributes it leaves, and
\* the exception it raised.
New(c) ==
    IF Len(c) = 0
    THEN [Blank EXCEPT !.status = "failed", !.cfg = c,
                       !.exc = Outcome("ValueError", "cfg.markers", "", <<>>)]
    ELSE LET r == AddMarkersPrototypes(c, 1, [Blank EXCEPT !.cfg = c]) IN
         IF r.exc.kind # "ok"
         THEN [r EXCEPT !.status = "failed"]
         ELSE [r EXCEPT !.status = "ready",
                        !.protoIndices = <<0>>,
                        !.positions = <<Vec3f>>,
                        !.count = 1]

Construct(c) ==
    /\ status = "new"
    /\ \E r \in {New(c)} :
       /\ status' = r.status
       /\ cfg' = r.cfg
       /\ created' = r.created
       /\ prototypes' = r.prototypes
       /\ positions' = r.positions
       /\ protoIndices' = r.protoIndices
       /\ count' = r.count
       /\ Observe(TRUE, Call("construct", NoneArg, NoneArg, NoneArg, NoneArg, FALSE, r.exc))
    /\ UNCHANGED <<visibility, orientations, scales>>

\* num_prototypes: len(self.cfg.markers)
num_prototypes == Len(cfg)

----------------------------------------------------------------------------
(* Specifications *)

\* Before the constructor runs.
InitNew ==
    /\ status = "new"
    /\ cfg = <<>>
    /\ created = <<>>
    /\ prototypes = <<>>
    /\ visibility = "inherited"
    /\ positions = <<>>
    /\ orientations = <<>>
    /\ scales = <<>>
    /\ protoIndices = <<>>
    /\ count = 0
    /\ call = NoCall
    /\ prev = NoSnapshot

\* The run goes on until an operation has been observed.
Running == call = NoCall

\* The constructor, on every configuration.
ConstructCall == Running /\ \E c \in Configs : Construct(c)

SpecNew == InitNew /\ [][ConstructCall]_vars

\* A VisualizationMarkers constructed from the docstring's configuration.
Init ==
    LET r == New(DocCfg) IN
    /\ status = r.status
    /\ cfg = r.cfg
    /\ created = r.created
    /\ prototypes = r.prototypes
    /\ visibility = "inherited"
    /\ positions = r.positions
    /\ orientations = <<>>
    /\ scales = <<>>
    /\ protoIndices = r.protoIndices
    /\ count = r.count
    /\ call = NoCall
    /\ prev = NoSnapshot

\* visualize, on every combination of arguments.
VisualizeCall ==
    Running /\ \E t \in TranslationArgs, o \in OrientationArgs, s \in ScaleArgs,
                  m \in MarkerIndexArgs, observe \in BOOLEAN :
                   Visualize(t, o, s, m, observe)

SetVisibilityCall ==
    Running /\ \E visible \in BOOLEAN, observe \in BOOLEAN : SetVisibility(visible, observe)

Next == VisualizeCall \/ SetVisibilityCall

Spec == Init /\ [][Next]_vars

----------------------------------------------------------------------------
(* Properties of the observed operation *)

\* The observed operation is a visualize call made while the markers were visible.
VisibleCall == call.op = "visualize" /\ prev.visibility # "invisible"

\* The observed operation is a visualize call made while the markers were hidden.
HiddenCall == call.op = "visualize" /\ prev.visibility = "invisible"

Succeeded == call.outcome.kind = "ok"

\* The arguments of the observed call in the order visualize treats them.
Given == <<call.translations, call.orientations, call.scales, call.marker_indices>>

GivenIdx == {i \in 1 .. 4 : ~Given[i].isNone}

\* The three arguments that carry transforms.
GivenTransforms == GivenIdx \ {4}

Max(S) == CHOOSE x \in S : \A y \in S : y <= x

\* The width the shape rule asks of argument i (marker_indices has none).
RuleWidth(i) == IF i = 2 THEN 4 ELSE 3

\* Argument i follows its shape rule: (M, 3), (M, 4), (M, 3), (M,).
WellFormed(i) ==
    IF i = 4 THEN Len(Given[4].shape) = 1
    ELSE Len(Given[i].shape) = 2 /\ Given[i].shape[2] = RuleWidth(i)

ArgName(i) == <<"translations", "orientations", "scales", "marker_indices">>[i]

ArgRule(i) == <<"(M, 3)", "(M, 4)", "(M, 3)", "(M,)">>[i]

\* The host array that argument i is written to.
HostArray(i) == <<positions, orientations, scales, protoIndices>>[i]

PrevArray(i) == <<prev.positions, prev.orientations, prev.scales, prev.protoIndices>>[i]

Zeros(n) == [i \in 1 .. n |-> 0]

\* The count the transform arguments imply: the leading dimension of the last one
\* given, 0 when none is given.
ImpliedCount ==
    IF GivenTransforms = {} THEN 0 ELSE Given[Max(GivenTransforms)].shape[1]

C2_HiddenCallChangesNothing ==
    HiddenCall =>
        /\ call.outcome.kind = "skipped"
        /\ count = prev.count
        /\ \A i \in 1 .. 4 : HostArray(i) = PrevArray(i)

\* C2 witness: a hidden call with a malformed array and a well-formed one, on an
\* object that earlier calls have updated.
C2_Witness ==
    /\ HiddenCall
    /\ 1 \in GivenIdx /\ ~WellFormed(1)
    /\ 4 \in GivenIdx /\ WellFormed(4) /\ call.marker_indices.shape[1] = 1
    /\ count = 2
    /\ Len(scales) = 2

\* C3: a visible visualize call with all four arguments None raises ValueError, in
\* every reachable state.
C3_AllNoneRaises ==
    (VisibleCall /\ GivenIdx = {}) => call.outcome.kind = "ValueError"

C6_DefaultIndicesOnNewCount ==
    (/\ VisibleCall
     /\ 4 \notin GivenIdx
     /\ GivenTransforms # {}
     /\ \A i \in GivenTransforms : WellFormed(i)
     /\ ImpliedCount # 0
     /\ ImpliedCount # prev.count)
        => protoIndices = Zeros(ImpliedCount)

\* C6 witness: an earlier selection <<1, 2>> is discarded by a call that implies 1.
C6_Witness ==
    /\ VisibleCall /\ Succeeded
    /\ 4 \notin GivenIdx
    /\ prev.protoIndices = <<1, 2>>
    /\ prev.count = 2
    /\ ImpliedCount = 1
    /\ protoIndices = <<0>>

\* C7: a visible call without marker_indices, whose transform arrays follow their
\* shape rules and imply the recorded count, leaves the prototype-index array and
\* the count as they were.
C7_IndicesKeptOnSameCount ==
    (/\ VisibleCall
     /\ 4 \notin GivenIdx
     /\ GivenTransforms # {}
     /\ \A i \in GivenTransforms : WellFormed(i)
     /\ ImpliedCount = prev.count)
        => /\ protoIndices = prev.protoIndices
           /\ count = prev.count

\* C7 witness: the selection <<1, 2>> survives a call that gives 2 orientations.
C7_Witness ==
    /\ VisibleCall /\ Succeeded
    /\ GivenIdx = {2}
    /\ call.orientations.shape[1] = 2
    /\ prev.protoIndices = <<1, 2>>
    /\ protoIndices = <<1, 2>>
    /\ count = 2

\* C8: a visible call with an array that breaks its shape rule raises ValueError
\* naming such an argument, the shape expected of it and the shape received; this
\* for every kind of violation, a wrong rank as well as a wrong width.
C8_BadShapeRaisesValueError ==
    (VisibleCall /\ \E i \in GivenIdx : ~WellFormed(i))
        => /\ call.outcome.kind = "ValueError"
           /\ \E i \in GivenIdx :
                 /\ ~WellFormed(i)
                 /\ call.outcome.arg = ArgName(i)
                 /\ call.outcome.expected = ArgRule(i)
                 /\ call.outcome.received = Given[i].shape

\* C9: a successful visible call replaces the positions, orientations and scales
\* arrays of the arguments given, in full and by the input (orientations in the
\* host's component order), and leaves those of the arguments not given as they were.
C9_OnlyGivenArraysReplaced ==
    (VisibleCall /\ Succeeded)
        => /\ positions = IF 1 \in GivenIdx THEN call.translations.data
                          ELSE prev.positions
           /\ orientations =
                 IF 2 \in GivenIdx
                 THEN [i \in 1 .. Len(call.orientations.data) |->
                          LET q == call.orientations.data[i]
                          IN <<q[2], q[3], q[4], q[1]>>]
                 ELSE prev.orientations
           /\ scales = IF 3 \in GivenIdx THEN call.scales.data ELSE prev.scales

\* C9 witness: marker_indices alone, after a call that set 2 translations.
C9_Witness ==
    /\ VisibleCall /\ Succeeded
    /\ GivenIdx = {4}
    /\ call.marker_indices.data = <<1, 2>>
    /\ prev.positions = <<TranslationRow(1), TranslationRow(2)>>
    /\ positions = prev.positions

\* An entry is valid: a shape of a type other than Xform, or a file that resolves
\* with the type Xform.
ValidMarker(m) ==
    \/ ~m.isFile /\ m.prim_type # "Xform"
    \/ m.isFile /\ m.prim_type = "Xform" /\ m.usd_path \in Files

\* C10: constructed from a non-empty configuration of valid entries, the object has
\* as many prototypes as entries, the targets registered in the order of the
\* entries, one seeded instance (indices [0], positions [origin]) and count 1.
C10_ConstructionSeedsOneInstance ==
    (/\ call.op = "construct"
     /\ Len(cfg) > 0
     /\ \A i \in 1 .. Len(cfg) : ValidMarker(cfg[i]))
        => /\ status = "ready"
           /\ call.outcome.kind = "ok"
           /\ num_prototypes = Len(prototypes)
           /\ \A i \in 1 .. Len(cfg) : prototypes[i] = cfg[i].name
           /\ protoIndices = <<0>>
           /\ positions = <<<<0, 0, 0>>>>
           /\ count = 1

\* C10 witness: three valid entries, a file among them, not first.
C10_Witness ==
    /\ call.op = "construct"
    /\ status = "ready"
    /\ Len(cfg) = 3
    /\ cfg[2].isFile
    /\ prototypes = <<cfg[1].name, "frame", cfg[3].name>>

\* The entries of the configuration the constructor was given.
Entries == {cfg[i] : i \in 1 .. Len(cfg)}

\* The first entry of the configuration that is not valid.
FirstInvalid ==
    cfg[CHOOSE i \in 1 .. Len(cfg) :
            /\ ~ValidMarker(cfg[i])
            /\ \A j \in 1 .. i - 1 : ValidMarker(cfg[j])]

\* C11 as claimed: construction raises ValueError whenever the configuration holds
\* a non-file entry of type Xform, and whenever it holds a file entry of another
\* type, whether its file exists or not; a file entry of type Xform whose file does
\* not resolve makes it raise FileNotFoundError.
C11_ErrorByEntryKind ==
    call.op = "construct" =>
        /\ (\E m \in Entries : ~m.isFile /\ m.prim_type = "Xform")
              => status = "failed" /\ call.outcome.kind = "ValueError"
        /\ (\E m \in Entries : m.isFile /\ m.prim_type # "Xform")
              => status = "failed" /\ call.outcome.kind = "ValueError"
        /\ (/\ \E m \in Entries :
                  m.isFile /\ m.prim_type = "Xform" /\ m.usd_path \notin Files
            /\ \A m \in Entries : m.isFile => m.prim_type = "Xform"
            /\ \A m \in Entries : ~m.isFile => m.prim_type # "Xform")
              => status = "failed" /\ call.outcome.kind = "FileNotFoundError"

\* C11 amended: construction from a configuration with an invalid entry fails, with
\* the error of the first invalid entry in configuration order: ValueError for a
\* non-file entry of type Xform; for a file entry FileNotFoundError when its file
\* does not resolve, whatever its type, and ValueError when the file resolves and
\* the type is not Xform.
C11_ErrorOfFirstInvalidEntry ==
    (call.op = "construct" /\ \E m \in Entries : ~ValidMarker(m))
        => /\ status = "failed"
           /\ call.outcome.arg = FirstInvalid.name
           /\ call.outcome.kind =
                 IF ~FirstInvalid.isFile THEN "ValueError"
                 ELSE IF FirstInvalid.usd_path \notin Files THEN "FileNotFoundError"
                 ELSE "ValueError"

\* C11 witness: a file entry of type Cone whose file is missing, after a valid entry.
C11_Witness ==
    /\ call.op = "construct"
    /\ Len(cfg) = 2
    /\ ValidMarker(cfg[1])
    /\ cfg[2].isFile /\ cfg[2].prim_type = "Cone" /\ cfg[2].usd_path \notin Files
    /\ status = "failed"
    /\ call.outcome.kind = "FileNotFoundError"

\* C12: construction from a configuration without markers raises ValueError before
\* any prototype prim is created or registered and before the instancer is seeded.
C12_EmptyConfigRaises ==
    (call.op = "construct" /\ Len(cfg) = 0)
        => /\ status = "failed"
           /\ call.outcome.kind = "ValueError"
           /\ created = <<>>
           /\ prototypes = <<>>
           /\ protoIndices = <<>>
           /\ positions = <<>>
           /\ count = 0

\* C12 witness: the constructor has run on the empty configuration.
C12_Witness ==
    /\ call.op = "construct"
    /\ prev.status = "new"
    /\ cfg = <<>>
    /\ status = "failed"
    /\ call.outcome.arg = "cfg.markers"

\* C13: set_visibility(flag) succeeds and leaves is_visible() equal to flag, with
\* the count and the four host arrays as they were; a freshly constructed object is
\* visible, and visualize never changes the visibility, so it stays visible until
\* set_visibility(False).
C13_VisibilityFollowsFlag ==
    /\ Init => is_visible
    /\ call.op = "visualize" => visibility = prev.visibility
    /\ call.op = "set_visibility" =>
          /\ call.outcome.kind = "ok"
          /\ is_visible = call.visible
          /\ count = prev.count
          /\ \A i \in 1 .. 4 : HostArray(i) = PrevArray(i)

\* C13 witness: hidden markers that earlier calls had updated are shown again.
C13_Witness ==
    /\ call.op = "set_visibility"
    /\ call.visible
    /\ prev.visibility = "invisible"
    /\ is_visible
    /\ count = 2
    /\ Len(positions) = 2

\* C14: whenever visualize writes the orientations, each row written is the input
\* row (w, x, y, z) in the order (x, y, z, w), no component changed, and as many
\* rows are written as were given.
C14_OrientationsReordered ==
    (/\ VisibleCall
     /\ 2 \in GivenIdx /\ WellFormed(2)
     /\ 1 \in GivenIdx => WellFormed(1))
        => /\ Len(orientations) = call.orientations.shape[1]
           /\ \A i \in 1 .. Len(orientations) :
                 /\ orientations[i][1] = call.orientations.data[i][2]
                 /\ orientations[i][2] = call.orientations.data[i][3]
                 /\ orientations[i][3] = call.orientations.data[i][4]
                 /\ orientations[i][4] = call.orientations.data[i][1]

\* C14 witness: two rows (1, 31, 41, 51), (1, 32, 42, 52) are written as
\* (31, 41, 51, 1), (32, 42, 52, 1).
C14_Witness ==
    /\ VisibleCall /\ Succeeded
    /\ call.orientations.data = <<<<1, 31, 41, 51>>, <<1, 32, 42, 52>>>>
    /\ orientations = <<<<31, 41, 51, 1>>, <<32, 42, 52, 1>>>>
    /\ prev.orientations = <<>>

\* C15: a visible call without marker_indices, whose transform arrays follow their
\* shape rules and imply the count 0 while the recorded count is not 0, raises
\* ValueError and does not write the prototype-index array.
C15_EmptyBatchRaises ==
    (/\ VisibleCall
     /\ 4 \notin GivenIdx
     /\ GivenTransforms # {}
     /\ \A i \in GivenTransforms : WellFormed(i)
     /\ ImpliedCount = 0
     /\ prev.count # 0)
        => /\ call.outcome.kind = "ValueError"
           /\ call.outcome.arg = ""
           /\ protoIndices = prev.protoIndices
           /\ count = prev.count

\* C15 witness: empty translations on two markers with the selection <<1, 2>>.
C15_Witness ==
    /\ VisibleCall
    /\ GivenIdx = {1}
    /\ call.translations.shape = <<0, 3>>
    /\ prev.count = 2
    /\ call.outcome.kind = "ValueError"
    /\ protoIndices = <<1, 2>>
    /\ positions = <<>>

\* The step at which the observed call raised: the argument its error names, or
\* the index step (4) for the error of the zero check, which names none.
FailStep ==
    IF call.outcome.arg = "" THEN 4
    ELSE CHOOSE i \in 1 .. 4 : ArgName(i) = call.outcome.arg

Raised == call.outcome.kind \in {"ValueError", "IndexError"}

\* C16: a visualize call that raises leaves the count and the prototype-index array
\* as they were; of positions, orientations and scales it has changed at most those
\* whose arguments were given and come before the step that raised.
C16_FailedCallKeepsCountAndIndices ==
    (call.op = "visualize" /\ Raised)
        => /\ count = prev.count
           /\ protoIndices = prev.protoIndices
           /\ \A i \in 1 .. 3 :
                 (i \notin GivenIdx \/ i >= FailStep) => HostArray(i) = PrevArray(i)

\* C16 witness: translations are written, orientations are malformed, the scales
\* given after them are not written.
C16_Witness ==
    /\ VisibleCall /\ Raised
    /\ {1, 2, 3} \subseteq GivenIdx
    /\ call.outcome.arg = "orientations"
    /\ call.outcome.kind = "ValueError"
    /\ positions = call.translations.data /\ positions # prev.positions
    /\ WellFormed(3) /\ call.scales.shape[1] = 1
    /\ scales = prev.scales /\ Len(scales) = 2

\* C17: in every state of a constructed object, after any visualize and
\* set_visibility calls (successful, failed or skipped), the prototype-index array
\* is as long as the recorded count.
C17_IndicesLengthIsCount ==
    status = "ready" => Len(protoIndices) = count

\* C17 witness: two markers, after a call that raised having written 1 translation.
C17_Witness ==
    /\ VisibleCall /\ Raised
    /\ Len(positions) = 1 /\ positions # prev.positions
    /\ count = 2
    /\ Len(protoIndices) = 2

\* C18: the recorded count of a constructed object is at least 1 in every state:
\* no visualize call, one with an empty marker_indices included, brings it to 0.
C18_CountAtLeastOne ==
    /\ Init => count >= 1
    /\ (call.op = "visualize" /\ prev.count >= 1) => count >= 1


\* Whether every value of a prototype-index array is the handle of a prototype.
ValidIndices(a) ==
    \A i \in 1 .. Len(a) : a[i] \in 0 .. num_prototypes - 1

\* C19: every value of the host's prototype-index array is a valid prototype
\* index, one of 0 .. num_prototypes - 1, in every state of a constructed
\* object: it is so after construction, and no visualize call changes that.
C19_IndicesAreValidHandles ==
    /\ Init => ValidIndices(protoIndices)
    /\ (call.op = "visualize" /\ ValidIndices(prev.protoIndices))
           => ValidIndices(protoIndices)


\* What the observed call does when it is issued once more, in the state it left.
Again ==
    Update(call.translations, call.orientations, call.scales, call.marker_indices)

\* C20: visualize is idempotent: the same call issued a second time, right after
\* the first, has the same outcome (skipped, success or the same error) and
\* leaves the count and the four host arrays as the first call left them.
C20_SecondCallChangesNothing ==
    call.op = "visualize" =>
        IF ~is_visible
        THEN call.outcome.kind = "skipped"
        ELSE \A r \in {Again} :
                /\ r.exc = call.outcome
                /\ r.positions = positions
                /\ r.orientations = orientations
                /\ r.scales = scales
                /\ r.protoIndices = protoIndices
                /\ (IF r.exc.kind = "ok" THEN r.num_markers ELSE count) = count

\* C20 witness: a call without marker_indices that changed the count and the
\* handles, so that its repetition finds the count it computes already recorded.
C20_Witness ==
    /\ VisibleCall /\ Succeeded
    /\ call.marker_indices.isNone
    /\ count # prev.count
    /\ protoIndices # prev.protoIndices
    /\ positions # prev.positions

====
